---- MODULE Spec2Model ----
(***************************************************************************)
(* Booking lifecycle and payment reconciliation of consult_backend.        *)
(*                                                                         *)
(* The durable store is PostgreSQL: every INSERT/UPDATE on bookings runs   *)
(* the BEFORE trigger enforce_booking_rules and the two exclusion          *)
(* constraints as one atomic statement.  Handlers are sequences of such    *)
(* statements and of calls to the payment gateway and the video provider;  *)
(* each statement or call is one step of the handler's process, so that    *)
(* concurrent handlers interleave between them.                            *)
(*                                                                         *)
(* The video provider reports on sessions through signed webhooks, and a   *)
(* separate worker takes the termination tasks that the web process puts   *)
(* into a durable queue.                                                   *)
(*                                                                         *)
(* Time is counted in ticks of 15 minutes.                                 *)
(***************************************************************************)
EXTENDS Integers, Sequences, FiniteSets, TLC

\* ------------------------------------------------------------------ bounds
MaxTime     == 1   \* the clock runs from 0 to MaxTime
MaxStart    == 1   \* a requested booking starts at 0..MaxStart
MaxDur      == 2   \* and lasts 1..MaxDur ticks
MaxBookings == 2   \* rows of the bookings table
NumProcs    == 2   \* concurrent request handlers
MaxTxns     == 2   \* transactions the gateway opens
MaxMeetings == 2   \* sessions the video provider creates
MaxFailures == 1   \* calls of one handler that fail for outside reasons
MaxLate     == 3   \* the clock of the sessions runs from 0 to MaxLate
MaxJoins    == 2   \* participant_joined events that are processed
MaxEnd      == 6   \* a request to the validator ends at 0..MaxEnd

\* ------------------------------------------------------- program constants
MinDuration == 2   \* INTERVAL '30 minutes', in ticks
DayLen      == 4   \* ticks per day, scaled down from 96
DaysPerWeek == 7
MaxRetry    == 3   \* asynq.MaxRetry(3)

NULL == 0

Procs == 1..NumProcs

\* users 1 and 2 own the expert accounts 1 and 2; user 3 is only a client
Users == {1, 2, 3}
experts == [e \in {1, 2} |-> [user_id |-> e]]

\* expert_availabilities rows: weekly windows (weekday, time of day)
expert_availabilities ==
    { [expert_id |-> 1, day_of_week |-> 0, start_time |-> 0, end_time |-> 3],
      [expert_id |-> 2, day_of_week |-> 0, start_time |-> 1, end_time |-> 3] }

BookingStatuses == {"pending", "confirmed", "cancelled", "completed"}
GatewayStatuses == {"PENDING", "SUCCESS", "FAILED", "CANCELLED", "EXPIRED"}

VARIABLES
    now,        \* NOW() of the store
    bookings,   \* the bookings table: row id = index
    creq,       \* booking-creation requests in flight, per handler
    preq,       \* payment handlers (initialize, gateway webhook), per handler
    gatewayTxns,                \* transactions opened at the gateway: the booking of each
    payunit_transactions_init,  \* initialization records: the transaction of each
    payunit_payment_status,     \* status records
    zoom,                       \* sessions at the video provider: the booking of each
    zoom_meetings,              \* the zoom_meetings table: row id = index
    zoom_meeting_participants,  \* the zoom_meeting_participants table
    deleted,    \* the sessions deleted at the video provider
    tasks,      \* the "meetings" queue of termination tasks, kept by Redis
    zhook       \* what zoomWebhookHandler answered last

\* what the provider's webhooks and the worker act on
zvars == <<zoom_meeting_participants, deleted, tasks, zhook>>

vars == <<now, bookings, creq, preq, gatewayTxns, payunit_transactions_init,
          payunit_payment_status, zoom, zoom_meetings, zvars>>

\* --------------------------------------------------------------- the store
Weekday(t)   == (t \div DayLen) % DaysPerWeek
TimeOfDay(t) == t % DayLen

\* tstzrange(start_time, end_time, '[)') && tstzrange(...)
RangesOverlap(a, b) == a.start_time < b.end_time /\ b.start_time < a.end_time

\* WHERE (bk_status IN ('pending', 'confirmed'))
Active(r) == r.bk_status \in {"pending", "confirmed"}

OK                  == "ok"
MsgSelf             == "An expert cannot book himself"
MsgPast             == "Cannot book a session in the past."
MsgEndBeforeStart   == "End time must be after start time."
MsgMinDuration      == "Booking duration must be at least 30 minutes."
MsgOutsideAvailable == "outside expert available hours"
ConExpert           == "no_expert_overlap"
ConUser             == "no_user_overlap"

\* the BEFORE INSERT OR UPDATE trigger: the first rule the new row breaks, or OK
enforce_booking_rules(new, t) ==
    IF new.expert_id \in DOMAIN experts
       /\ new.user_id = experts[new.expert_id].user_id THEN MsgSelf
    ELSE IF new.start_time < t THEN MsgPast
    ELSE IF new.end_time <= new.start_time THEN MsgEndBeforeStart
    ELSE IF new.end_time - new.start_time < MinDuration THEN MsgMinDuration
    ELSE IF ~ \E ea \in expert_availabilities :
                /\ ea.expert_id = new.expert_id
                /\ ea.day_of_week = Weekday(new.start_time)
                /\ TimeOfDay(new.start_time) >= ea.start_time
                /\ TimeOfDay(new.end_time) <= ea.end_time
         THEN MsgOutsideAvailable
    ELSE OK

\* EXCLUDE USING gist (expert_id WITH =, time_range WITH &&) WHERE active
no_expert_overlap_mut(new, others) == TRUE
no_expert_overlap(new, others) ==
    \A r \in others :
        ~ (Active(new) /\ Active(r) /\ r.expert_id = new.expert_id
           /\ RangesOverlap(r, new))

\* EXCLUDE USING gist (user_id WITH =, time_range WITH &&) WHERE active
no_user_overlap(new, others) ==
    \A r \in others :
        ~ (Active(new) /\ Active(r) /\ r.user_id = new.user_id
           /\ RangesOverlap(r, new))

\* the constraints are checked in the order they were created
ExclusionCheck(new, others) ==
    IF ~ no_expert_overlap(new, others) THEN ConExpert
    ELSE IF ~ no_user_overlap(new, others) THEN ConUser
    ELSE OK

RowsExcept(tbl, id) == {tbl[i] : i \in DOMAIN tbl \ {id}}

\* what one INSERT/UPDATE statement writing row new as row id answers
StatementResult(new, id, tbl, t) ==
    LET trig == enforce_booking_rules(new, t) IN
    IF trig # OK THEN trig ELSE ExclusionCheck(new, RowsExcept(tbl, id))

NewBooking(user, expert, start, end) ==
    [user_id |-> user, expert_id |-> expert,
     start_time |-> start, end_time |-> end,
     bk_status |-> "pending", payment_status |-> "pending",
     zoom_meeting_id |-> NULL, transaction_id |-> NULL,
     payunit_transactions_init_id |-> NULL]

\* BookingStore.Insert: the error it returns for the store's answer
InsertError(res) ==
    CASE res = OK                  -> OK
      [] res = ConUser             -> "booking overlaps with existing user booking"
      [] res = ConExpert           -> "booking overlaps with expert's schedule"
      [] res = MsgPast             -> "you cannot book a session in the past"
      [] res = MsgEndBeforeStart   -> "the end time must be after the start time"
      [] res = MsgMinDuration      -> "the booking must last at least 30 minutes"
      [] res = MsgOutsideAvailable -> "the selected time is outside the expert's available hours"
      [] res = MsgSelf             -> "an expert cannot book themselves"
      [] OTHER                     -> res

\* createBookingHandler: the HTTP status for BookingStore.Insert's error
CreateStatus(err) ==
    CASE err = OK -> 200
      [] err = "booking overlaps with existing user booking" -> 409
      [] err = "booking overlaps with expert's schedule" -> 409
      [] err = "the selected time is outside the expert's available hours" -> 400
      [] OTHER -> 500

\* ------------------------------------------------- store statements (Go)
\* BookingStore.GetByID: the Booking it scans, with the fields its callers
\* read.  The SELECT has no zoom_meeting_id column, so ZoomMeetingID is
\* always invalid, and it has no version column either.
GetByID(row) ==
    [user_id |-> row.user_id, start_time |-> row.start_time,
     end_time |-> row.end_time, bk_status |-> row.bk_status,
     transaction_id |-> row.transaction_id,
     payunit_transactions_init_id |-> row.payunit_transactions_init_id,
     zoom_meeting_id |-> NULL]

\* one UPDATE of row id to new: the statement's answer and the table after
UpdateRow_trigger_only(tbl, id, new, t) ==
    LET res == enforce_booking_rules(new, t)
    IN  [err |-> res, tbl |-> IF res = OK THEN [tbl EXCEPT ![id] = new] ELSE tbl]
UpdateRow(tbl, id, new, t) ==
    LET res == StatementResult(new, id, tbl, t)
    IN  [err |-> res, tbl |-> IF res = OK THEN [tbl EXCEPT ![id] = new] ELSE tbl]

\* UpdateBookingStatus on a table without the trigger and the constraints
UpdateBookingStatus_unchecked(tbl, id, bkStatus, t) ==
    [err |-> OK, tbl |-> [tbl EXCEPT ![id].bk_status = bkStatus]]

\* BookingStore.UpdateBookingStatus: UPDATE bookings SET bk_status = $2
UpdateBookingStatus(tbl, id, bkStatus, t) ==
    UpdateRow(tbl, id, [tbl[id] EXCEPT !.bk_status = bkStatus], t)

\* BookingStore.UpdatePaymentStatus: UPDATE bookings SET payment_status = $2
UpdatePaymentStatus(tbl, id, paymentStatus, t) ==
    UpdateRow(tbl, id, [tbl[id] EXCEPT !.payment_status = paymentStatus], t)

\* BookingStore.Update: UPDATE bookings SET zoom_meeting_id, start_time,
\* end_time, topic, additional_notes, bk_status from the caller's Booking
Update_keeps_status(tbl, id, booking, BKStatus, t) ==
    UpdateRow(tbl, id,
              [tbl[id] EXCEPT !.zoom_meeting_id = booking.zoom_meeting_id,
                              !.start_time = booking.start_time,
                              !.end_time = booking.end_time], t)
Update(tbl, id, booking, BKStatus, t) ==
    UpdateRow(tbl, id,
              [tbl[id] EXCEPT !.zoom_meeting_id = booking.zoom_meeting_id,
                              !.start_time = booking.start_time,
                              !.end_time = booking.end_time,
                              !.bk_status = BKStatus], t)

\* BookingStore.UpdateInitTransactionID
UpdateInitTransactionID(tbl, id, initTransx, t) ==
    UpdateRow(tbl, id, [tbl[id] EXCEPT !.payunit_transactions_init_id = initTransx], t)

\* BookingStore.UpdateTransactionID
UpdateTransactionID(tbl, id, transactionID, t) ==
    UpdateRow(tbl, id, [tbl[id] EXCEPT !.transaction_id = transactionID], t)

\* BookingStore.GetByTransactionID: the ids of the rows WHERE transaction_id = $1
GetByTransactionID(tbl, transactionID) ==
    {i \in DOMAIN tbl : tbl[i].transaction_id = transactionID}

\* PayunitStore.CheckPaymentStatusExists
CheckPaymentStatusExists(transactionID) ==
    \E i \in DOMAIN payunit_payment_status :
        payunit_payment_status[i].transaction_id = transactionID

\* Payunit.GetPaymentStatus: the payment_status its switch writes
PaymentStatusFor_swapped(status) ==
    CASE status = "PENDING"   -> "pending"
      [] status = "SUCCESS"   -> "paid"
      [] status = "FAILED"    -> "cancelled"
      [] status = "CANCELLED" -> "failed"
      [] OTHER                -> "unknown"
KnownStatuses_any == GatewayStatuses
KnownStatuses == {"PENDING", "SUCCESS", "FAILED", "CANCELLED"}
PaymentStatusFor(status) ==
    CASE status = "PENDING"   -> "pending"
      [] status = "SUCCESS"   -> "paid"
      [] status = "FAILED"    -> "failed"
      [] status = "CANCELLED" -> "cancelled"
      [] OTHER                -> "unknown"

\* ----------------------------------------------------------------- actions
NoRow == NewBooking(0, 0, 0, 0)
IdleCreate == [pc |-> "idle", row |-> NoRow, err |-> OK, code |-> 0]
\* a payment handler: op is the handler, pc its next step, bk the Booking
\* that GetByID gave it and the rest its local variables.  fresh and z0
\* record what the store held when bk was read: whether the row was unpaid
\* without a session, and the number of provider sessions.  A handler that
\* has answered is idle again; op, status and code keep what it answered last
\* and the gateway status it had fetched.  fails counts the calls of the
\* handler that failed for reasons outside the program.
IdlePay == [op |-> "none", pc |-> "idle", booking |-> 0, bk |-> GetByID(NoRow),
            fresh |-> FALSE, z0 |-> 0,
            txn |-> NULL, status |-> "", exists |-> FALSE,
            meeting |-> 0, zmt |-> 0, initID |-> 0, code |-> 0, fails |-> 0]

\* no participant has joined, no task is queued, no webhook was answered
IdleHook == [event |-> "", code |-> 0, call |-> "none"]
NoSessionEvents ==
    /\ zoom_meeting_participants = <<>>
    /\ deleted = {}
    /\ tasks = <<>>
    /\ zhook = IdleHook

Init ==
    /\ now = 0
    /\ bookings = <<>>
    /\ creq = [p \in Procs |-> IdleCreate]
    /\ preq = [p \in Procs |-> IdlePay]
    /\ gatewayTxns = <<>>
    /\ payunit_transactions_init = <<>>
    /\ payunit_payment_status = <<>>
    /\ zoom = <<>>
    /\ zoom_meetings = <<>>
    /\ NoSessionEvents

\* handler p begins to handle a request / answers it with code
Start(p, op) == [IdlePay EXCEPT !.op = op, !.fails = preq[p].fails]
Answer(p, op, code) ==
    [IdlePay EXCEPT !.op = op, !.status = preq[p].status, !.code = code,
                    !.fails = preq[p].fails]
Done(p, code) == [preq EXCEPT ![p] = Answer(p, preq[p].op, code)]

\* a call of handler p fails for an outside reason and p answers 500
Failed(p) ==
    /\ preq[p].fails < MaxFailures
    /\ preq' = [preq EXCEPT ![p] = [Answer(p, preq[p].op, 500) EXCEPT
                                        !.fails = preq[p].fails + 1]]

\* POST /bookings/{expertID}: createBookingHandler, whose only statement
\* on the store is BookingStore.Insert
createBookingHandler(user, expert, start, end) ==
    LET row == NewBooking(user, expert, start, end)
        res == StatementResult(row, Len(bookings) + 1, bookings, now)
    IN  /\ Len(bookings) < MaxBookings
        /\ res = OK
        /\ bookings' = Append(bookings, row)
        /\ UNCHANGED <<zvars, now, creq, preq, gatewayTxns, payunit_transactions_init,
                       payunit_payment_status, zoom, zoom_meetings>>

\* PATCH /bookings/{id}/status: approveBookingHandler, called by the user
\* who owns the expert account of the booking
approveBookingHandler(user, id, bkStatus) ==
    /\ id \in DOMAIN bookings
    /\ bookings[id].expert_id \in DOMAIN experts
    /\ experts[bookings[id].expert_id].user_id = user
    /\ bkStatus \in BookingStatuses
    /\ bookings' = UpdateBookingStatus(bookings, id, bkStatus, now).tbl
    /\ bookings' # bookings
    /\ UNCHANGED <<zvars, now, creq, preq, gatewayTxns, payunit_transactions_init,
                   payunit_payment_status, zoom, zoom_meetings>>

\* createBookingHandler as a process: GetExpertByID, then BookingStore.Insert
\* and the HTTP status for its error
CreateGetExpert(p) ==
    /\ creq[p].pc = "c_expert"
    /\ creq' = [creq EXCEPT ![p] =
            IF creq[p].row.expert_id \in DOMAIN experts
            THEN [@ EXCEPT !.pc = "c_insert"]
            ELSE [@ EXCEPT !.pc = "done", !.err = "record not found", !.code = 404]]
    /\ UNCHANGED <<zvars, now, bookings, preq, gatewayTxns, payunit_transactions_init,
                   payunit_payment_status, zoom, zoom_meetings>>

CreateInsert(p) ==
    /\ creq[p].pc = "c_insert"
    /\ Len(bookings) < MaxBookings
    /\ LET res == StatementResult(creq[p].row, Len(bookings) + 1, bookings, now)
           err == InsertError(res)
       IN  /\ bookings' = IF res = OK THEN Append(bookings, creq[p].row) ELSE bookings
           /\ creq' = [creq EXCEPT ![p].pc = "done", ![p].err = err,
                                   ![p].code = CreateStatus(err)]
    /\ UNCHANGED <<zvars, now, preq, gatewayTxns, payunit_transactions_init,
                   payunit_payment_status, zoom, zoom_meetings>>

\* ---- POST /bookings/{id}/payunit/initiate: initializeBookingPaymentHandler
\* IsUserMeeting, GetByID and the check of PayunitTransactionInitID
InitRead(p, user, id) ==
    /\ preq[p].pc = "idle"
    /\ id \in DOMAIN bookings
    /\ bookings[id].user_id = user
    /\ LET bk == GetByID(bookings[id])
           q  == [Start(p, "init") EXCEPT !.booking = id]
       IN  preq' = [preq EXCEPT ![p] =
                IF bk.payunit_transactions_init_id # NULL
                THEN Answer(p, "init", 400)
                ELSE [q EXCEPT !.pc = "i_gateway"]]
    /\ UNCHANGED <<zvars, now, bookings, creq, gatewayTxns, payunit_transactions_init,
                   payunit_payment_status, zoom, zoom_meetings>>

\* InitializePayUnitTransaction: the gateway opens transaction txn_..., and
\* PayunitStore.InsertInitializedTransaction records its answer
InitGateway(p) ==
    /\ preq[p].pc = "i_gateway"
    /\ Len(gatewayTxns) < MaxTxns
    /\ gatewayTxns' = Append(gatewayTxns, preq[p].booking)
    /\ payunit_transactions_init' =
            Append(payunit_transactions_init, Len(gatewayTxns) + 1)
    /\ preq' = [preq EXCEPT ![p].pc = "i_setinit",
                            ![p].txn = Len(gatewayTxns) + 1,
                            ![p].initID = Len(payunit_transactions_init) + 1]
    /\ UNCHANGED <<zvars, now, bookings, creq, payunit_payment_status, zoom, zoom_meetings>>

\* the request to the gateway fails: nothing is opened
InitGatewayFail(p) ==
    /\ preq[p].pc = "i_gateway"
    /\ Failed(p)
    /\ UNCHANGED <<zvars, now, bookings, creq, gatewayTxns, payunit_transactions_init,
                   payunit_payment_status, zoom, zoom_meetings>>

InitSetInitID(p) ==
    /\ preq[p].pc = "i_setinit"
    /\ LET r == UpdateInitTransactionID(bookings, preq[p].booking, preq[p].initID, now)
       IN  /\ bookings' = r.tbl
           /\ preq' = IF r.err = OK THEN [preq EXCEPT ![p].pc = "i_settxn"]
                      ELSE Done(p, 500)
    /\ UNCHANGED <<zvars, now, creq, gatewayTxns, payunit_transactions_init,
                   payunit_payment_status, zoom, zoom_meetings>>

InitSetTxnID(p) ==
    /\ preq[p].pc = "i_settxn"
    /\ LET r == UpdateTransactionID(bookings, preq[p].booking, preq[p].txn, now)
       IN  /\ bookings' = r.tbl
           /\ preq' = Done(p, IF r.err = OK THEN 200 ELSE 500)
    /\ UNCHANGED <<zvars, now, creq, gatewayTxns, payunit_transactions_init,
                   payunit_payment_status, zoom, zoom_meetings>>

\* ---- POST /payunit/notify: payunitWebHookHandler
\* the JSON payloads of the gateway's webhook: the transaction and what
\* the sender says of its status and amount
Payloads ==
    [transaction_id : 1..MaxTxns, transaction_status : {"SUCCESS", "FAILED"},
     transaction_amount : 1..2]

\* payunitWebHookHandler, steps 3 to 6, were it to believe the payload's status
WebhookLookup_trusts_payload(p, payload) ==
    /\ preq[p].pc = "idle"
    /\ LET found == GetByTransactionID(bookings, payload.transaction_id)
           q     == [Start(p, "webhook") EXCEPT !.txn = payload.transaction_id,
                                                !.status = payload.transaction_status]
       IN  preq' = [preq EXCEPT ![p] =
                IF found = {}
                THEN Answer(p, "webhook", 400)
                ELSE [q EXCEPT !.pc = "r_get",
                               !.booking = CHOOSE i \in found : \A j \in found : i <= j]]
    /\ UNCHANGED <<zvars, now, bookings, creq, gatewayTxns, payunit_transactions_init,
                   payunit_payment_status, zoom, zoom_meetings>>

\* the payload's transaction_id is looked up with GetByTransactionID
WebhookLookup(p, payload) ==
    /\ preq[p].pc = "idle"
    /\ LET found == GetByTransactionID(bookings, payload.transaction_id)
           q     == [Start(p, "webhook") EXCEPT !.txn = payload.transaction_id]
       IN  preq' = [preq EXCEPT ![p] =
                IF found = {}
                THEN Answer(p, "webhook", 400)
                ELSE [q EXCEPT !.pc = "r_get",
                               !.booking = CHOOSE i \in found : \A j \in found : i <= j]]
    /\ UNCHANGED <<zvars, now, bookings, creq, gatewayTxns, payunit_transactions_init,
                   payunit_payment_status, zoom, zoom_meetings>>

\* Payunit.GetPaymentStatus, step 1: GetByID and the check of TransactionID
ReconcileGet(p) ==
    /\ preq[p].pc = "r_get"
    /\ LET bk == GetByID(bookings[preq[p].booking])
       IN  preq' = [preq EXCEPT ![p] =
                IF bk.transaction_id = NULL
                THEN Answer(p, "webhook", 500)
                ELSE [@ EXCEPT !.pc = "r_fetch", !.bk = bk,
                               !.fresh = /\ bookings[preq[p].booking].payment_status = "pending"
                                         /\ bookings[preq[p].booking].zoom_meeting_id = NULL,
                               !.z0 = Len(zoom), !.txn = bk.transaction_id]]
    /\ UNCHANGED <<zvars, now, bookings, creq, gatewayTxns, payunit_transactions_init,
                   payunit_payment_status, zoom, zoom_meetings>>

\* steps 2 and 3: GET paymentstatus/{transactionID} answers 200 with status
GatewayFetch(p, status) ==
    /\ preq[p].pc = "r_fetch"
    /\ preq' = [preq EXCEPT ![p].pc = "r_exists", ![p].status = status]
    /\ UNCHANGED <<zvars, now, bookings, creq, gatewayTxns, payunit_transactions_init,
                   payunit_payment_status, zoom, zoom_meetings>>

\* the request fails, times out or answers another HTTP status
GatewayFetchFail(p) ==
    /\ preq[p].pc = "r_fetch"
    /\ Failed(p)
    /\ UNCHANGED <<zvars, now, bookings, creq, gatewayTxns, payunit_transactions_init,
                   payunit_payment_status, zoom, zoom_meetings>>

\* step 4: CheckPaymentStatusExists
ReconcileExists(p) ==
    /\ preq[p].pc = "r_exists"
    /\ LET exists == CheckPaymentStatusExists(preq[p].txn)
       IN  preq' = [preq EXCEPT ![p].exists = exists,
                                ![p].pc = IF exists THEN "r_apply" ELSE "r_insert"]
    /\ UNCHANGED <<zvars, now, bookings, creq, gatewayTxns, payunit_transactions_init,
                   payunit_payment_status, zoom, zoom_meetings>>

\* step 4: InsertPaymentStatus when no record exists
ReconcileInsert(p) ==
    /\ preq[p].pc = "r_insert"
    /\ payunit_payment_status' =
            Append(payunit_payment_status,
                   [transaction_id |-> preq[p].txn, transaction_status |-> preq[p].status])
    /\ preq' = [preq EXCEPT ![p].pc = "r_apply"]
    /\ UNCHANGED <<zvars, now, bookings, creq, gatewayTxns, payunit_transactions_init,
                   zoom, zoom_meetings>>

\* step 5: the switch on TransactionStatus and its UpdatePaymentStatus
ReconcileApply(p) ==
    /\ preq[p].pc = "r_apply"
    /\ LET status == preq[p].status
           bk == preq[p].bk
           r  == UpdatePaymentStatus(bookings, preq[p].booking,
                                     PaymentStatusFor(status), now)
       IN  IF status \notin KnownStatuses
           THEN /\ preq' = Done(p, 500)
                /\ UNCHANGED bookings
           ELSE /\ bookings' = r.tbl
                /\ preq' = IF r.err # OK THEN Done(p, 500)
                           ELSE IF status = "SUCCESS" /\ bk.zoom_meeting_id = NULL
                                THEN [preq EXCEPT ![p].pc = "r_zoom"]
                                ELSE Done(p, 200)
    /\ UNCHANGED <<zvars, now, creq, gatewayTxns, payunit_transactions_init,
                   payunit_payment_status, zoom, zoom_meetings>>

\* zoom.CreateZoomMeeting: the provider creates a session for the booking
CreateZoomMeeting(p) ==
    /\ preq[p].pc = "r_zoom"
    /\ Len(zoom) < MaxMeetings
    /\ zoom' = Append(zoom, preq[p].booking)
    /\ preq' = [preq EXCEPT ![p].pc = "r_zinsert", ![p].meeting = Len(zoom) + 1]
    /\ UNCHANGED <<zvars, now, bookings, creq, gatewayTxns, payunit_transactions_init,
                   payunit_payment_status, zoom_meetings>>

\* the provider's call fails or its answer has no meeting id
CreateZoomMeetingFail(p) ==
    /\ preq[p].pc = "r_zoom"
    /\ Failed(p)
    /\ UNCHANGED <<zvars, now, bookings, creq, gatewayTxns, payunit_transactions_init,
                   payunit_payment_status, zoom, zoom_meetings>>

\* ZoomMeetingStore.Insert of the meeting the provider answered: it starts
\* at the booking's start and lasts the minutes from start to end
ZoomMeetingInsert(p) ==
    /\ preq[p].pc = "r_zinsert"
    /\ zoom_meetings' =
            Append(zoom_meetings,
                   [zoom_meeting_id |-> preq[p].meeting,
                    created_by |-> preq[p].bk.user_id,
                    start_time |-> preq[p].bk.start_time,
                    duration |-> preq[p].bk.end_time - preq[p].bk.start_time,
                    zoom_status |-> "waiting"])
    /\ preq' = [preq EXCEPT ![p].pc = "r_update", ![p].zmt = Len(zoom_meetings) + 1]
    /\ UNCHANGED <<zvars, now, bookings, creq, gatewayTxns, payunit_transactions_init,
                   payunit_payment_status, zoom>>

\* booking.ZoomMeetingID = zmtID; booking.BKStatus = "confirmed"; Booking.Update
ReconcileUpdate(p) ==
    /\ preq[p].pc = "r_update"
    /\ LET r == Update(bookings, preq[p].booking,
                       [preq[p].bk EXCEPT !.zoom_meeting_id = preq[p].zmt], "confirmed", now)
       IN  /\ bookings' = r.tbl
           /\ preq' = Done(p, IF r.err = OK THEN 200 ELSE 500)
    /\ UNCHANGED <<zvars, now, creq, gatewayTxns, payunit_transactions_init,
                   payunit_payment_status, zoom, zoom_meetings>>

\* a statement on the store fails (connection lost, request context cancelled)
StorePcs == {"r_get", "r_exists", "r_insert", "r_apply", "r_zinsert", "r_update",
             "i_setinit", "i_settxn"}
StoreFail(p) ==
    /\ preq[p].pc \in StorePcs
    /\ Failed(p)
    /\ UNCHANGED <<zvars, now, bookings, creq, gatewayTxns, payunit_transactions_init,
                   payunit_payment_status, zoom, zoom_meetings>>

\* NOW() advances, up to max
Advance(max) ==
    /\ now < max
    /\ now' = now + 1
    /\ UNCHANGED <<zvars, bookings, creq, preq, gatewayTxns, payunit_transactions_init,
                   payunit_payment_status, zoom, zoom_meetings>>

Tick == Advance(MaxTime)

\* the clock runs on after the last booking was made
Later == Advance(MaxLate)

\* ------------------------------------------------------ POST /zoom/webhook
\* os.Getenv("ZOOM_WEBHOOK_SECRET_TOKEN")
secret == "ZOOM_WEBHOOK_SECRET_TOKEN"

\* hex(HMAC-SHA256(key, "v0:" + timestamp + ":" + body)) with "v0=" before
\* it.  The keyed hash is the triple it is computed from: two of them are
\* equal only when key, timestamp and body are.
Signature(key, timestamp, body) == <<"v0=", key, timestamp, body>>

expectedSignature(timestamp, body) == Signature(secret, timestamp, body)

\* the handler goes on to the event: both headers are there and
\* hmac.Equal(signature, expectedSignature)
Authentic_any_signature(r) == r.signature # <<>> /\ r.timestamp # ""
Authentic(r) ==
    /\ r.signature # <<>> /\ r.timestamp # ""
    /\ r.signature = expectedSignature(r.timestamp, r.body)

\* the events the handler's switch has a case for
KnownEvents == {"endpoint.url_validation", "meeting.participant_joined",
                "meeting.participant_left", "meeting.ended", "meeting.started"}

\* a JSON body: its event, whether it has the members payload and
\* payload.object, and the members of the object that the handler reads;
\* a start_time below 0 is one that time.Parse refuses
Body(event, payload, object, id, participant, duration, start_time) ==
    [event |-> event, payload |-> payload, object |-> object,
     id |-> id, participant |-> participant, duration |-> duration,
     start_time |-> start_time]

\* ZoomMeetingStore.GetByZoomID: the row WHERE zoom_meeting_id = $1, or 0
GetByZoomID(zoomID) ==
    IF \E z \in DOMAIN zoom_meetings : zoom_meetings[z].zoom_meeting_id = zoomID
    THEN CHOOSE z \in DOMAIN zoom_meetings :
            /\ zoom_meetings[z].zoom_meeting_id = zoomID
            /\ \A y \in DOMAIN zoom_meetings :
                  zoom_meetings[y].zoom_meeting_id = zoomID => z <= y
    ELSE 0

\* the provider's answer to DELETE /meetings/{id} and to
\* PUT /meetings/{id}/status: 404 when it holds no such session
ProviderHolds(id) == id \in DOMAIN zoom /\ id \notin deleted

\* what the handler answers, and the provider call it made
Respond(event, code, call) ==
    zhook' = [event |-> event, code |-> code, call |-> call]

\* the handler changes nothing but its answer
Ignore(event, code) ==
    /\ Respond(event, code, "none")
    /\ UNCHANGED <<zoom_meetings, zoom_meeting_participants, deleted, tasks>>

\* zoom_meeting_participants: UNIQUE(meeting_id, user_id)
ParticipantUnique(meeting_id, user_id) ==
    \A i \in DOMAIN zoom_meeting_participants :
        \/ zoom_meeting_participants[i].meeting_id # meeting_id
        \/ zoom_meeting_participants[i].user_id # user_id

\* case "meeting.participant_joined": ScheduleEndMeeting at the stored start
\* plus the stored duration, then InsertParticipantJoined, whose row carries
\* the session's creator as user_id whoever the participant is
participantJoined(b, z) ==
    LET m      == zoom_meetings[z]
        fireAt == m.start_time + m.duration
    IN  IF fireAt < now
        THEN Ignore(b.event, 500)
        ELSE /\ Len(tasks) < MaxJoins
             /\ tasks' = Append(tasks, [meeting |-> b.id, fireAt |-> fireAt,
                                         retried |-> 0, runs |-> 0,
                                         state |-> "scheduled"])
             /\ IF ParticipantUnique(z, m.created_by)
                THEN /\ zoom_meeting_participants' =
                            Append(zoom_meeting_participants,
                                   [meeting_id |-> z, zoom_meeting_id |-> b.id,
                                    participant_id |-> b.participant,
                                    user_id |-> m.created_by, left |-> FALSE])
                     /\ Respond(b.event, 200, "none")
                ELSE /\ Respond(b.event, 500, "none")
                     /\ UNCHANGED zoom_meeting_participants
             /\ UNCHANGED <<zoom_meetings, deleted>>

\* case "meeting.participant_left": UpdateParticipantLeft
participantLeft(b) ==
    /\ zoom_meeting_participants' =
            [i \in DOMAIN zoom_meeting_participants |->
                LET row == zoom_meeting_participants[i]
                IN  IF /\ row.zoom_meeting_id = b.id
                       /\ row.participant_id = b.participant
                       /\ ~ row.left
                    THEN [row EXCEPT !.left = TRUE] ELSE row]
    /\ Respond(b.event, 200, "none")
    /\ UNCHANGED <<zoom_meetings, deleted, tasks>>

\* ZoomMeetingStore.Update: SET topic, agenda, duration, zoom_status
ZoomMeetingUpdate(z, duration, status) ==
    zoom_meetings' = [zoom_meetings EXCEPT ![z].duration = duration,
                                           ![z].zoom_status = status]

\* case "meeting.ended": the row is set to ended, then DeleteZoomMeeting;
\* when the store fails the update the handler returns before the delete
meetingEnded(b, z) ==
    \/ Ignore(b.event, 500)
    \/ /\ ZoomMeetingUpdate(z, b.duration, "ended")
       /\ deleted' = IF ProviderHolds(b.id) THEN deleted \cup {b.id} ELSE deleted
       /\ Respond(b.event, IF ProviderHolds(b.id) THEN 200 ELSE 500, "delete")
       /\ UNCHANGED <<zoom_meeting_participants, tasks>>

\* case "meeting.started": the event's start time is parsed and put in
\* the struct with the duration, then Update stores the struct
meetingStarted(b, z) ==
    IF b.start_time < 0
    THEN Ignore(b.event, 500)
    ELSE /\ ZoomMeetingUpdate(z, b.duration, "started")
         /\ Respond(b.event, 200, "none")
         /\ UNCHANGED <<zoom_meeting_participants, deleted, tasks>>

\* zoomWebhookHandler for request r with headers signature and timestamp.
\* payload["payload"].(map[string]interface{}) panics when the body has no
\* payload member, and the Recoverer middleware answers 500; a body without
\* payload.object leaves Object.ID empty, which ParseInt refuses.
zoomWebhookHandler(r) ==
    LET b == r.body
        z == GetByZoomID(b.id)
    IN  /\ IF ~ Authentic(r) THEN Ignore(b.event, 401)
           ELSE IF ~ b.payload THEN Ignore(b.event, 500)
           ELSE IF b.event \notin KnownEvents \/ b.event = "endpoint.url_validation"
                THEN Ignore(b.event, 200)
           ELSE IF ~ b.object THEN Ignore(b.event, 500)
           ELSE IF z = 0 THEN Ignore(b.event, 200)
           ELSE CASE b.event = "meeting.participant_joined" -> participantJoined(b, z)
                  [] b.event = "meeting.participant_left"   -> participantLeft(b)
                  [] b.event = "meeting.ended"              -> meetingEnded(b, z)
                  [] b.event = "meeting.started"            -> meetingStarted(b, z)
        /\ UNCHANGED <<now, bookings, creq, preq, gatewayTxns,
                       payunit_transactions_init, payunit_payment_status, zoom>>

\* the requests the provider, or anybody else, may send: the body, the
\* timestamp header and the signature header, which is missing, the
\* provider's, made with another key, or made for another timestamp or body
Timestamps == {"t1", "t2"}
Ping == Body("endpoint.url_validation", TRUE, FALSE, 0, 0, 0, 0)
Bodies ==
    {Ping}
    \cup {Body(e, FALSE, FALSE, 0, 0, 0, 0) : e \in {"meeting.alert", "meeting.ended"}}
    \cup {Body(e, TRUE, FALSE, 0, 0, 0, 0) :
            e \in {"meeting.alert", "meeting.participant_joined"}}
    \cup {Body(e, TRUE, TRUE, id, u, 0, 0) :
            e \in {"meeting.participant_joined", "meeting.participant_left"},
            id \in 1..MaxMeetings, u \in 1..MaxJoins}
    \cup {Body(e, TRUE, TRUE, id, 0, d, 0) :
            e \in {"meeting.ended", "meeting.alert"},
            id \in 1..MaxMeetings, d \in 1..MaxDur}
    \cup {Body("meeting.started", TRUE, TRUE, id, 0, d, t) :
            id \in 1..MaxMeetings, d \in 1..MaxDur, t \in -1..MaxStart}
Signatures(b) ==
    {<<>>, Signature(secret, "t1", b), Signature("guess", "t1", b),
     Signature(secret, "t2", b),
     Signature(secret, "t1", [b EXCEPT !.payload = ~ b.payload])}
Requests ==
    UNION {{[signature |-> sg, timestamp |-> "t1", body |-> b] : sg \in Signatures(b)}
           \cup {[signature |-> Signature(secret, "", b), timestamp |-> "", body |-> b]}
           : b \in Bodies}

Deliver == \E r \in Requests : zoomWebhookHandler(r)

\* --------------------------------------------------------------- the worker
\* zoom.EndZoomMeeting: nil only when the provider answers 200 or 204
EndZoomMeeting(status) == status \in {200, 204}

\* the provider's answers to PUT /meetings/{id}/status; 500 stands for every
\* failure of the call
EndAnswers(id) == IF ProviderHolds(id) THEN {204, 500} ELSE {404}

\* the asynq server takes task i, due since fireAt, and runs the handler;
\* a task whose handler returns an error is retried until it has been
\* retried MaxRetry times and is archived then
RunTask(i, status) ==
    LET t == tasks[i]
    IN  /\ t.state = "scheduled"
        /\ t.fireAt <= now
        /\ status \in EndAnswers(t.meeting)
        /\ tasks' = [tasks EXCEPT ![i] =
                IF EndZoomMeeting(status)
                THEN [t EXCEPT !.runs = t.runs + 1, !.state = "completed"]
                ELSE IF t.retried < MaxRetry
                THEN [t EXCEPT !.runs = t.runs + 1, !.retried = t.retried + 1]
                ELSE [t EXCEPT !.runs = t.runs + 1, !.state = "archived"]]
        /\ UNCHANGED <<now, bookings, creq, preq, gatewayTxns,
                       payunit_transactions_init, payunit_payment_status, zoom,
                       zoom_meetings, zoom_meeting_participants, deleted, zhook>>

Work == \E i \in DOMAIN tasks, status \in {200, 204, 404, 500} : RunTask(i, status)

\* the web process stops and starts again: the requests in flight and what
\* it answered are gone; MeetingScheduler holds only the client of the queue
Restart_loses_tasks ==
    /\ zhook # IdleHook
    /\ zhook' = IdleHook
    /\ tasks' = <<>>
    /\ creq' = [p \in Procs |-> IdleCreate]
    /\ preq' = [p \in Procs |-> IdlePay]
    /\ UNCHANGED <<now, bookings, gatewayTxns, payunit_transactions_init,
                   payunit_payment_status, zoom, zoom_meetings,
                   zoom_meeting_participants, deleted>>
Restart ==
    /\ zhook # IdleHook
    /\ zhook' = IdleHook
    /\ creq' = [p \in Procs |-> IdleCreate]
    /\ preq' = [p \in Procs |-> IdlePay]
    /\ UNCHANGED <<now, bookings, gatewayTxns, payunit_transactions_init,
                   payunit_payment_status, zoom, zoom_meetings,
                   zoom_meeting_participants, deleted, tasks>>

\* the steps of initializeBookingPaymentHandler
InitStep(p) ==
    \/ \E u \in Users, id \in 1..MaxBookings : InitRead(p, u, id)
    \/ InitGateway(p)
    \/ InitGatewayFail(p)
    \/ InitSetInitID(p)
    \/ InitSetTxnID(p)
    \/ preq[p].op = "init" /\ StoreFail(p)

\* the steps of payunitWebHookHandler
HookStep(p) ==
    \/ \E payload \in Payloads : WebhookLookup(p, payload)
    \/ ReconcileGet(p)
    \/ \E st \in GatewayStatuses : GatewayFetch(p, st)
    \/ GatewayFetchFail(p)
    \/ ReconcileExists(p)
    \/ ReconcileInsert(p)
    \/ ReconcileApply(p)
    \/ CreateZoomMeeting(p)
    \/ CreateZoomMeetingFail(p)
    \/ ZoomMeetingInsert(p)
    \/ ReconcileUpdate(p)
    \/ preq[p].op = "webhook" /\ StoreFail(p)

Create ==
    \E u \in Users, e \in DOMAIN experts, s \in 0..MaxStart, d \in 1..MaxDur :
        createBookingHandler(u, e, s, s + d)

Patch ==
    \E u \in Users, id \in 1..MaxBookings, st \in BookingStatuses :
        approveBookingHandler(u, id, st)

\* handler p has not answered a request yet
First(p) == preq[p].code = 0

\* the booking handlers and the clock, beside one request to initialize a
\* payment and one delivery of the gateway's webhook
Next ==
    \/ Create
    \/ Patch
    \/ Tick
    \/ First(1) /\ InitStep(1)
    \/ First(2) /\ HookStep(2)

Spec == Init /\ [][Next]_vars

\* a booking of user 3 with expert 1 whose payment has been initialized
Initialized ==
    [NewBooking(3, 1, 0, 2) EXCEPT !.transaction_id = 1,
                                   !.payunit_transactions_init_id = 1]

InitHook ==
    /\ now = 0
    /\ bookings = <<Initialized>>
    /\ creq = [p \in Procs |-> IdleCreate]
    /\ preq = [p \in Procs |-> IdlePay]
    /\ gatewayTxns = <<1>>
    /\ payunit_transactions_init = <<1>>
    /\ payunit_payment_status = <<>>
    /\ zoom = <<>>
    /\ zoom_meetings = <<>>
    /\ NoSessionEvents

\* concurrent deliveries of the gateway's webhook, one to each handler
NextHook ==
    \/ Tick
    \/ \E p \in Procs : First(p) /\ HookStep(p)

SpecHook == InitHook /\ [][NextHook]_vars

\* any number of deliveries of the gateway's webhook, one after the other
NextSeq ==
    \/ Tick
    \/ HookStep(1)

SpecSeq == InitHook /\ [][NextSeq]_vars

\* a booking of user 3 with expert 1 that nobody has paid for yet
InitNew ==
    /\ now = 0
    /\ bookings = <<NewBooking(3, 1, 0, 2)>>
    /\ creq = [p \in Procs |-> IdleCreate]
    /\ preq = [p \in Procs |-> IdlePay]
    /\ gatewayTxns = <<>>
    /\ payunit_transactions_init = <<>>
    /\ payunit_payment_status = <<>>
    /\ zoom = <<>>
    /\ zoom_meetings = <<>>
    /\ NoSessionEvents

\* any number of requests to initialize the payment, on concurrent handlers
NextInit ==
    \/ Tick
    \/ \E p \in Procs : InitStep(p)

SpecInit == InitNew /\ [][NextInit]_vars

\* the gateway has received a 2xx answer to a delivery
Acked == preq[1].op = "webhook" /\ preq[1].pc = "idle" /\ preq[1].code = 200

\* the gateway delivers the webhook of transaction 1 again until it is
\* acknowledged, and reports SUCCESS whenever it is asked
Redeliver ==
    /\ ~ Acked
    /\ \E payload \in Payloads : payload.transaction_id = 1 /\ WebhookLookup(1, payload)

Handling ==
    \/ Redeliver
    \/ ReconcileGet(1)
    \/ GatewayFetch(1, "SUCCESS")
    \/ GatewayFetchFail(1)
    \/ ReconcileExists(1)
    \/ ReconcileInsert(1)
    \/ ReconcileApply(1)
    \/ CreateZoomMeeting(1)
    \/ CreateZoomMeetingFail(1)
    \/ ZoomMeetingInsert(1)
    \/ ReconcileUpdate(1)
    \/ StoreFail(1)

NextLive ==
    \/ Tick
    \/ Handling

\* the server keeps handling and the gateway keeps delivering; the clock
\* may advance at any moment
SpecLive == InitHook /\ [][NextLive]_vars /\ WF_vars(Handling)

\* the requests the store accepts at time 0 when the table is empty
ValidRequests ==
    {r \in {NewBooking(u, e, st, st + d) :
                u \in Users, e \in DOMAIN experts, st \in 0..MaxStart, d \in 1..MaxDur} :
        StatementResult(r, 1, <<>>, 0) = OK}

\* one creation request in flight on every handler, the table empty
InitCreate ==
    /\ now = 0
    /\ bookings = <<>>
    /\ creq \in [Procs -> {[IdleCreate EXCEPT !.pc = "c_expert", !.row = r] :
                              r \in ValidRequests}]
    /\ preq = [p \in Procs |-> IdlePay]
    /\ gatewayTxns = <<>>
    /\ payunit_transactions_init = <<>>
    /\ payunit_payment_status = <<>>
    /\ zoom = <<>>
    /\ zoom_meetings = <<>>
    /\ NoSessionEvents

NextCreate ==
    \/ \E p \in Procs : CreateGetExpert(p)
    \/ \E p \in Procs : CreateInsert(p)

SpecCreate == InitCreate /\ [][NextCreate]_vars

\* the booking is paid and confirmed and its session is stored
Paid ==
    [Initialized EXCEPT !.payment_status = "paid", !.bk_status = "confirmed",
                        !.zoom_meeting_id = 1]
InitSession ==
    /\ now = 0
    /\ bookings = <<Paid>>
    /\ creq = [p \in Procs |-> IdleCreate]
    /\ preq = [p \in Procs |-> IdlePay]
    /\ gatewayTxns = <<1>>
    /\ payunit_transactions_init = <<1>>
    /\ payunit_payment_status =
            <<[transaction_id |-> 1, transaction_status |-> "SUCCESS"]>>
    /\ zoom = <<1>>
    /\ zoom_meetings = <<[zoom_meeting_id |-> 1, created_by |-> Paid.user_id,
                          start_time |-> Paid.start_time,
                          duration |-> Paid.end_time - Paid.start_time,
                          zoom_status |-> "waiting"]>>
    /\ NoSessionEvents

\* the provider's webhooks and anybody else's requests, in any order
SpecZoom == InitSession /\ [][Deliver]_vars

\* the client has joined at time 0, which scheduled the termination task
InitJoined ==
    /\ now = 0
    /\ bookings = <<Paid>>
    /\ creq = [p \in Procs |-> IdleCreate]
    /\ preq = [p \in Procs |-> IdlePay]
    /\ gatewayTxns = <<1>>
    /\ payunit_transactions_init = <<1>>
    /\ payunit_payment_status =
            <<[transaction_id |-> 1, transaction_status |-> "SUCCESS"]>>
    /\ zoom = <<1>>
    /\ zoom_meetings = <<[zoom_meeting_id |-> 1, created_by |-> Paid.user_id,
                          start_time |-> Paid.start_time,
                          duration |-> Paid.end_time - Paid.start_time,
                          zoom_status |-> "waiting"]>>
    /\ zoom_meeting_participants =
            <<[meeting_id |-> 1, zoom_meeting_id |-> 1, participant_id |-> 1,
               user_id |-> Paid.user_id, left |-> FALSE]>>
    /\ deleted = {}
    /\ tasks = <<[meeting |-> 1, fireAt |-> Paid.end_time, retried |-> 0,
                  runs |-> 0, state |-> "scheduled"]>>
    /\ zhook = [event |-> "meeting.participant_joined", code |-> 200, call |-> "none"]

\* the provider's signed events of session 1
SessionEvents ==
    {r \in Requests : Authentic(r) /\ r.body.object /\ r.body.id = 1
                      /\ r.body.event \in KnownEvents}

\* the worker, the clock, the provider's events and restarts of the web process
NextWorker ==
    \/ Later
    \/ Work
    \/ Restart
    \/ \E r \in SessionEvents : zoomWebhookHandler(r)

\* time passes and the worker is alive
SpecWorker == InitJoined /\ [][NextWorker]_vars /\ WF_vars(Later) /\ WF_vars(Work)

\* one delivery of the gateway's webhook for the unpaid booking, beside the
\* provider's signed events of the session it creates
NextProvision ==
    \/ Tick
    \/ First(1) /\ HookStep(1)
    \/ \E r \in SessionEvents : zoomWebhookHandler(r)

SpecProvision == InitHook /\ [][NextProvision]_vars

\* one creation request of any shape, at any time, on a table that holds
\* nothing or one booking made earlier
AnyRequests ==
    {NewBooking(u, e, st, en) :
        u \in Users, e \in DOMAIN experts, st \in 0..MaxStart, en \in 0..MaxEnd}
InitValid ==
    /\ now \in 0..MaxTime
    /\ bookings \in {<<>>} \cup {<<r>> : r \in ValidRequests}
    /\ creq \in {[p \in Procs |-> IF p = 1
                                  THEN [IdleCreate EXCEPT !.pc = "c_expert", !.row = r]
                                  ELSE IdleCreate] : r \in AnyRequests}
    /\ preq = [p \in Procs |-> IdlePay]
    /\ gatewayTxns = <<>>
    /\ payunit_transactions_init = <<>>
    /\ payunit_payment_status = <<>>
    /\ zoom = <<>>
    /\ zoom_meetings = <<>>
    /\ NoSessionEvents

SpecValid == InitValid /\ [][NextCreate]_vars

\* ------------------------------------------------------------ properties
\* the sessions the video provider holds for booking id
SessionsOf(id) == {m \in DOMAIN zoom : zoom[m] = id}

\* the creation requests in flight are for one expert and intersect pairwise
SameExpertIntersecting ==
    \A p, q \in Procs :
        p # q => /\ creq[p].row.expert_id = creq[q].row.expert_id
                 /\ RangesOverlap(creq[p].row, creq[q].row)

\* C1: of N concurrent, otherwise valid creation requests for one expert
\* whose ranges intersect pairwise, at most one is accepted at any moment,
\* every other answered one is rejected with the expert-overlap error (409),
\* and once all are answered exactly one was accepted and is the only row.
C1_ExactlyOneAccepted ==
    SameExpertIntersecting =>
        /\ Cardinality({p \in Procs : creq[p].code = 200}) <= 1
        /\ \A p \in Procs :
              creq[p].pc = "done" /\ creq[p].code # 200 =>
                  /\ creq[p].err = "booking overlaps with expert's schedule"
                  /\ creq[p].code = 409
        /\ (\A p \in Procs : creq[p].pc = "done") =>
              /\ Cardinality({p \in Procs : creq[p].code = 200}) = 1
              /\ Len(bookings) = 1
              /\ \E p \in Procs : creq[p].code = 200 /\ bookings[1] = creq[p].row

\* all requests are answered, they came from different clients, and one lost
C1_Witness ==
    /\ SameExpertIntersecting
    /\ \A p \in Procs : creq[p].pc = "done"
    /\ \A p, q \in Procs : p # q => creq[p].row.user_id # creq[q].row.user_id
    /\ \E p \in Procs : creq[p].code = 409
    /\ \E p \in Procs : creq[p].code = 200

\* C2: in every reachable state no two bookings that are pending or
\* confirmed and share the expert or the client have intersecting ranges.
C2_NoActiveOverlap ==
    \A i, j \in DOMAIN bookings :
        (/\ i # j
         /\ Active(bookings[i]) /\ Active(bookings[j])
         /\ \/ bookings[i].expert_id = bookings[j].expert_id
            \/ bookings[i].user_id = bookings[j].user_id)
        => ~ RangesOverlap(bookings[i], bookings[j])

\* a cancelled booking was paid, and the reconciliation that tried to
\* confirm it was refused because another booking now holds the slot
C2_Witness ==
    \E i, j \in DOMAIN bookings :
        /\ i # j
        /\ bookings[i].expert_id = bookings[j].expert_id
        /\ RangesOverlap(bookings[i], bookings[j])
        /\ bookings[i].bk_status = "cancelled"
        /\ bookings[i].payment_status = "paid"
        /\ Active(bookings[j])
        /\ preq[2].op = "webhook" /\ preq[2].code = 500
        /\ SessionsOf(i) # {}

\* handler p takes a step / takes the step that answers with code
Steps(p) == preq'[p] # preq[p]
Answers(p, code) == preq[p].pc # "idle" /\ preq'[p].pc = "idle" /\ preq'[p].code = code

\* C3: when deliveries of the webhook for one transaction are processed
\* concurrently, the video provider is asked for at most one session for
\* the booking and at most one session is persisted.
C3_OneSessionProvisioned ==
    \A id \in DOMAIN bookings :
        /\ Cardinality(SessionsOf(id)) <= 1
        /\ Cardinality({z \in DOMAIN zoom_meetings :
                            zoom_meetings[z].zoom_meeting_id \in SessionsOf(id)}) <= 1

\* C4: a reconcile that runs after an earlier one has ended and finds the
\* booking with a session reference creates no further session.
C4_SecondReconcileCreatesNoSession ==
    [][\A p \in Procs :
          (/\ preq[p].pc = "r_zoom"
           /\ bookings[preq[p].booking].zoom_meeting_id # NULL)
          => zoom' = zoom]_vars

\* C5: a payment_status of paid, failed or cancelled is never changed.
C5_TerminalPaymentStatusKept ==
    [][\A id \in DOMAIN bookings :
          bookings[id].payment_status \in {"paid", "failed", "cancelled"}
          => bookings'[id].payment_status = bookings[id].payment_status]_vars

\* C6: in every state a booking is paid if and only if it has a session
\* reference and is confirmed.
C6_PaidIffSessionAndConfirmed ==
    \A id \in DOMAIN bookings :
        bookings[id].payment_status = "paid"
        <=> (bookings[id].zoom_meeting_id # NULL /\ bookings[id].bk_status = "confirmed")

\* what the step of handler p must do when its reconcile found the booking
\* unpaid and without a session
AppliesStatus(p) ==
    LET q  == preq[p]
        id == q.booking
    IN  /\ (q.pc = "r_apply" /\ q.status = "PENDING" /\ Answers(p, 200)) =>
              /\ bookings' = bookings
              /\ zoom' = zoom /\ zoom_meetings' = zoom_meetings
        /\ (q.pc = "r_apply" /\ q.status = "FAILED" /\ Answers(p, 200)) =>
              bookings' = [bookings EXCEPT ![id].payment_status = "failed"]
        /\ (q.pc = "r_apply" /\ q.status = "CANCELLED" /\ Answers(p, 200)) =>
              bookings' = [bookings EXCEPT ![id].payment_status = "cancelled"]
        /\ (q.pc = "r_apply" /\ q.status = "SUCCESS" /\ Steps(p)) =>
              ~ Answers(p, 200)
        /\ (q.pc = "r_update" /\ Answers(p, 200)) =>
              /\ q.status = "SUCCESS"
              /\ bookings' = [bookings EXCEPT ![id].zoom_meeting_id = q.zmt,
                                              ![id].bk_status = "confirmed"]
              /\ bookings[id].payment_status = "paid"
              /\ q.zmt \in DOMAIN zoom_meetings
              /\ zoom_meetings[q.zmt].zoom_meeting_id = q.meeting
              /\ q.meeting \in SessionsOf(id)
              /\ Len(zoom') = q.z0 + 1

C9_UnknownStatusRejected ==
    [][\A p \in Procs :
          (/\ preq[p].pc \in {"r_exists", "r_insert", "r_apply"}
           /\ preq[p].status \notin {"PENDING", "SUCCESS", "FAILED", "CANCELLED"}
           /\ Steps(p))
          => /\ bookings' = bookings
             /\ preq'[p].pc = "idle" => preq'[p].code = 500
             /\ preq[p].pc = "r_apply" => Answers(p, 500)]_vars

\* a delivery fetched EXPIRED, recorded it and was answered with an error,
\* the booking being as it was
C9_Witness ==
    \E p \in Procs :
        /\ preq[p].op = "webhook" /\ preq[p].pc = "idle"
        /\ preq[p].status = "EXPIRED" /\ preq[p].code = 500
        /\ \E i \in DOMAIN payunit_payment_status :
              payunit_payment_status[i].transaction_status = "EXPIRED"
        /\ bookings = <<Initialized>>

\* the transactions the gateway opened for booking id
TxnsOf(id) == {t \in DOMAIN gatewayTxns : gatewayTxns[t] = id}

\* C10: over any sequence or interleaving of requests to initialize the
\* payment of a booking, at most one transaction is opened at the gateway
\* for it.
C10_OneTransactionPerBooking ==
    \A id \in DOMAIN bookings : Cardinality(TxnsOf(id)) <= 1

\* C11: every status write of a reconcile is guarded by the booking's
\* version: a write computed from a stale read (the booking_status was
\* changed after the reconcile read the booking) fails and leaves the
\* bookings as they are, so it cannot put confirmed over a cancellation.
C11_StaleWriteFails ==
    [][\A p \in Procs :
          (/\ preq[p].pc \in {"r_apply", "r_update"}
           /\ bookings[preq[p].booking].bk_status # preq[p].bk.bk_status
           /\ Steps(p))
          => bookings' = bookings]_vars

\* the store accepts an UPDATE of row id as it stands
StoreAccepts(id) == StatementResult(bookings[id], id, bookings, now) = OK

Provisioned(id) ==
    /\ bookings[id].payment_status = "paid"
    /\ bookings[id].bk_status = "confirmed"
    /\ bookings[id].zoom_meeting_id # NULL

\* C8: when the gateway reports SUCCESS and delivers the webhook again
\* until it is acknowledged, and the calls to gateway, provider and store
\* fail only a bounded number of times and the store then accepts the
\* updates, the booking is eventually paid and confirmed with a session
\* attached and a delivery is eventually acknowledged with success.
C8_PaidBookingIsProvisioned ==
    (<>[]StoreAccepts(1)) => (<>Provisioned(1) /\ <>Acked)

\* a delivery failed, a later one was acknowledged and the booking is
\* paid and confirmed with its session
C8_Witness ==
    /\ Acked
    /\ preq[1].fails > 0
    /\ Provisioned(1)
    /\ bookings[1].zoom_meeting_id \in DOMAIN zoom_meetings

\* the termination tasks queued for the session of booking id, to fire at
\* the booking's end
TasksOf(id) ==
    {i \in DOMAIN tasks :
        /\ bookings[id].zoom_meeting_id \in DOMAIN zoom_meetings
        /\ tasks[i].meeting = zoom_meetings[bookings[id].zoom_meeting_id].zoom_meeting_id
        /\ tasks[i].fireAt = bookings[id].end_time}

\* C12: every booking that reconcile has made paid and confirmed with a
\* session has a termination task for that session, to fire at the booking's
\* start plus its duration, whether or not a participant has joined.
C12_ProvisionedHasTask ==
    \A id \in DOMAIN bookings : Provisioned(id) => TasksOf(id) # {}

\* a header of r is missing, or its signature is not the keyed hash of
\* "v0:" + timestamp + ":" + body under the endpoint's secret
Forged(r) ==
    \/ r.signature = <<>>
    \/ r.timestamp = ""
    \/ r.signature # <<"v0=", secret, r.timestamp, r.body>>

\* the step answers 401 and touches neither sessions, participants, tasks
\* nor the provider
Rejected ==
    /\ zhook'.code = 401
    /\ zhook'.call = "none"
    /\ UNCHANGED <<zoom_meetings, zoom_meeting_participants, tasks, deleted,
                   bookings, zoom>>

\* C13: a provider webhook with a missing signature or timestamp header, or
\* with a signature that differs from the keyed hash of its timestamp and
\* body, is answered 401 and changes no session, no participant and no task
\* and calls the provider for nothing, whatever its event: every step is
\* such a rejection or is the handling of no such request.
C13_ForgedWebhookRejected ==
    [][Rejected \/ \A r \in Requests : Forged(r) => ~ zoomWebhookHandler(r)]_vars

\* an ended event with a bad signature was answered 401 while a participant
\* was in the session and its task was queued, and the session is as it was
C13_Witness ==
    /\ zhook = [event |-> "meeting.ended", code |-> 401, call |-> "none"]
    /\ Len(tasks) > 0
    /\ Len(zoom_meeting_participants) > 0
    /\ deleted = {}
    /\ zoom_meetings[1].zoom_status = "waiting"

\* the step answers 200 and changes nothing else
Acknowledged ==
    /\ zhook'.code = 200
    /\ zhook'.call = "none"
    /\ UNCHANGED <<zoom_meetings, zoom_meeting_participants, tasks, deleted,
                   bookings, zoom>>

\* C14: a validly signed provider webhook whose event is none of the
\* recognized ones is answered with HTTP 200 and changes no state, whatever
\* members its body has or lacks, a body without payload or without
\* payload.object included: every step is such an acknowledgement or is the
\* handling of no such request.
C14_UnknownEventAcknowledged ==
    [][Acknowledged \/ \A r \in Requests :
            (~ Forged(r) /\ r.body.event \notin KnownEvents)
            => ~ zoomWebhookHandler(r)]_vars

\* C15: a termination task is executed at most 3 times in total, however
\* often its execution fails, and is abandoned then.
C15_AtMostThreeExecutions ==
    \A i \in DOMAIN tasks :
        /\ tasks[i].runs <= 3
        /\ tasks[i].state = "archived" => tasks[i].runs = 3

\* C16: when the termination task runs for a session that has already ended
\* and was deleted at the provider, the execution counts as success: the
\* task is completed, without an error and without a retry.
C16_EndedSessionTaskSucceeds ==
    [][\A i \in DOMAIN tasks :
          (/\ tasks[i].state = "scheduled"
           /\ tasks[i].meeting \in deleted
           /\ tasks'[i].runs > tasks[i].runs)
          => /\ tasks'[i].state = "completed"
             /\ tasks'[i].retried = tasks[i].retried]_vars

\* C17: a termination task that was accepted stays in the queue over every
\* restart of the web process, the worker never executes it before its
\* fireAt, and while the worker is alive it is eventually executed.
C17_TaskSurvivesAndRuns ==
    /\ [][(zhook # IdleHook /\ zhook' = IdleHook) => tasks' = tasks]_vars
    /\ [][\A i \in DOMAIN tasks :
             (i \in DOMAIN tasks' /\ tasks'[i].runs > tasks[i].runs)
             => tasks[i].fireAt <= now]_vars
    /\ \A i \in 1..MaxJoins :
          (i \in DOMAIN tasks) ~> (i \in DOMAIN tasks /\ tasks[i].runs > 0
                                    /\ tasks[i].fireAt <= now)

\* the web process was restarted after it had handled the started event,
\* and the task was executed afterwards, at or after its fireAt, and
\* completed
C17_Witness ==
    /\ zhook = IdleHook
    /\ zoom_meetings[1].zoom_status = "started"
    /\ Len(tasks) > 0
    /\ tasks[1].state = "completed"
    /\ tasks[1].fireAt <= now

\* the whole of [start, end) lies inside one availability window of the
\* expert, on the weekday of start
InWindow(r) ==
    \E ea \in expert_availabilities :
        /\ ea.expert_id = r.expert_id
        /\ ea.day_of_week = Weekday(r.start_time)
        /\ TimeOfDay(r.start_time) >= ea.start_time
        /\ r.end_time <= r.start_time - TimeOfDay(r.start_time) + ea.end_time

\* the validator rules that request r breaks at time t on table tbl
Violated(r, tbl, t) ==
    {v \in {"PastBooking", "InvalidDuration", "OutsideAvailability",
            "ExpertOverlap", "ClientOverlap", "SelfBooking"} :
        CASE v = "PastBooking"         -> r.start_time < t
          [] v = "InvalidDuration"     -> r.end_time - r.start_time < MinDuration
          [] v = "OutsideAvailability" -> ~ InWindow(r)
          [] v = "ExpertOverlap"       ->
                \E i \in DOMAIN tbl : /\ Active(tbl[i])
                                      /\ tbl[i].expert_id = r.expert_id
                                      /\ r.start_time < r.end_time
                                      /\ RangesOverlap(tbl[i], r)
          [] v = "ClientOverlap"       ->
                \E i \in DOMAIN tbl : /\ Active(tbl[i])
                                      /\ tbl[i].user_id = r.user_id
                                      /\ r.start_time < r.end_time
                                      /\ RangesOverlap(tbl[i], r)
          [] v = "SelfBooking"         -> r.user_id = experts[r.expert_id].user_id}

\* the handler answers the creation request of handler 1
AnswersCreate == creq[1].pc = "c_insert" /\ creq'[1].pc = "done"

\* C18: a booking request is accepted, and a booking with booking_status
\* pending and payment_status pending is created, if and only if it breaks
\* no rule: start not in the past, at least 30 minutes long, inside an
\* availability window of the expert, no intersection with a pending or
\* confirmed booking of the expert or the client, and not the expert's own
\* account; a rejected request creates no booking.
C18_AcceptedIffValid ==
    [][AnswersCreate =>
          IF Violated(creq[1].row, bookings, now) = {}
          THEN /\ creq'[1].code = 200
               /\ bookings' = Append(bookings, creq[1].row)
               /\ creq[1].row.bk_status = "pending"
               /\ creq[1].row.payment_status = "pending"
          ELSE /\ creq'[1].code # 200
               /\ bookings' = bookings]_vars

\* the place of a rule in the validator's order; the two overlap rules
\* share one
Rank(v) ==
    CASE v = "PastBooking"         -> 1
      [] v = "InvalidDuration"     -> 2
      [] v = "OutsideAvailability" -> 3
      [] v = "ExpertOverlap"       -> 4
      [] v = "ClientOverlap"       -> 4
      [] v = "SelfBooking"         -> 5

\* the rule that BookingStore.Insert's error err names
Reason(err) ==
    CASE err = "you cannot book a session in the past"        -> "PastBooking"
      [] err = "the end time must be after the start time"    -> "InvalidDuration"
      [] err = "the booking must last at least 30 minutes"    -> "InvalidDuration"
      [] err = "the selected time is outside the expert's available hours"
                                                               -> "OutsideAvailability"
      [] err = "booking overlaps with expert's schedule"      -> "ExpertOverlap"
      [] err = "booking overlaps with existing user booking"  -> "ClientOverlap"
      [] err = "an expert cannot book themselves"             -> "SelfBooking"
      [] OTHER                                                 -> "none"

\* C19: a request that breaks more than one validator rule is rejected with
\* the reason of the first rule it breaks in the order PastBooking,
\* InvalidDuration, OutsideAvailability, ExpertOverlap or ClientOverlap,
\* SelfBooking.
C19_FirstViolatedRuleReported ==
    [][(AnswersCreate /\ Cardinality(Violated(creq[1].row, bookings, now)) > 1) =>
          LET broken == Violated(creq[1].row, bookings, now)
              reason == Reason(creq'[1].err)
          IN  /\ reason \in broken
              /\ \A v \in broken : Rank(reason) <= Rank(v)]_vars

\* C20: every accepted booking lies with its whole interval inside a single
\* availability window of the expert on the weekday of start; a request
\* that does not, for instance one that ends on a later day at a time of
\* day inside the window, creates no booking and, when it breaks no other
\* rule, is rejected as outside the expert's available hours.
C20_WholeIntervalInWindow ==
    [][(AnswersCreate /\ ~ InWindow(creq[1].row)) =>
          /\ bookings' = bookings
          /\ creq'[1].code # 200
          /\ Violated(creq[1].row, bookings, now) = {"OutsideAvailability"}
             => Reason(creq'[1].err) = "OutsideAvailability"]_vars

\* C21: every rejection of a creation request by the validator reaches the
\* client as a client error with its own reason: past-time, too-short and
\* outside-availability as 400, expert and client overlap as 409, and none
\* as a server error.
C21_RejectionIsClientError ==
    [][(AnswersCreate /\ Reason(creq'[1].err) # "none") =>
          LET reason == Reason(creq'[1].err)
          IN  /\ reason \in {"PastBooking", "InvalidDuration", "OutsideAvailability"}
                 => creq'[1].code = 400
              /\ reason \in {"ExpertOverlap", "ClientOverlap"} => creq'[1].code = 409
              /\ creq'[1].code \in {400, 409}]_vars

\* C22: in every reachable state a confirmed booking is paid and has a
\* session reference; the status PATCH cannot confirm an unpaid booking.
C22_ConfirmedIsPaid ==
    \A id \in DOMAIN bookings :
        bookings[id].bk_status = "confirmed"
        => /\ bookings[id].payment_status = "paid"
           /\ bookings[id].zoom_meeting_id # NULL

\* a signed participant_joined event of a session the store knows
KnownJoin(r) ==
    /\ Authentic(r)
    /\ r.body.event = "meeting.participant_joined"
    /\ r.body.payload /\ r.body.object
    /\ GetByZoomID(r.body.id) # 0

\* the step added a participation record of r's participant and a
\* termination task of r's session at the session's start plus duration
Joined(r) ==
    LET m == zoom_meetings[GetByZoomID(r.body.id)]
    IN  /\ Len(zoom_meeting_participants') = Len(zoom_meeting_participants) + 1
        /\ LET row == zoom_meeting_participants'[Len(zoom_meeting_participants')]
           IN  /\ row.zoom_meeting_id = r.body.id
               /\ row.participant_id = r.body.participant
        /\ Len(tasks') = Len(tasks) + 1
        /\ tasks'[Len(tasks')].meeting = r.body.id
        /\ tasks'[Len(tasks')].fireAt = m.start_time + m.duration

\* C23: every validly signed participant_joined event for a known session
\* both appends a participation record for that participant and schedules
\* the termination task at session start + duration, for each participant of
\* the session, not only the first, and for one who joins after the
\* scheduled end.
C23_EveryJoinRecordedAndScheduled ==
    [][\A r \in SessionEvents :
          (KnownJoin(r) /\ zoomWebhookHandler(r)) => Joined(r)]_vars

\* a signed started event of a session the store knows, with a start time
\* that parses
KnownStart(r) ==
    /\ Authentic(r)
    /\ r.body.event = "meeting.started"
    /\ r.body.payload /\ r.body.object
    /\ r.body.start_time >= 0
    /\ GetByZoomID(r.body.id) # 0

\* C24: after a validly signed started event for a known session is
\* processed, the stored session has status started and holds the start time
\* and the duration carried by the event.
C24_StartedStoresEventTimes ==
    [][\A r \in SessionEvents :
          (KnownStart(r) /\ zoomWebhookHandler(r)) =>
              LET m == zoom_meetings'[GetByZoomID(r.body.id)]
              IN  /\ m.zoom_status = "started"
                  /\ m.duration = r.body.duration
                  /\ m.start_time = r.body.start_time]_vars

\* a signed ended event of a session the store knows
KnownEnd(r) ==
    /\ Authentic(r)
    /\ r.body.event = "meeting.ended"
    /\ r.body.payload /\ r.body.object
    /\ GetByZoomID(r.body.id) # 0

\* the local update failed: nothing is stored and the provider is not called
UpdateFailed ==
    /\ zhook'.code = 500
    /\ zhook'.call = "none"
    /\ UNCHANGED <<zoom_meetings, deleted>>

\* the session is ended locally with r's duration and gone at the provider,
\* which was asked to delete it only if it still held it, and the event is
\* acknowledged
Ended(r) ==
    LET z == GetByZoomID(r.body.id)
    IN  /\ zoom_meetings'[z].zoom_status = "ended"
        /\ zoom_meetings'[z].duration = r.body.duration
        /\ deleted' = deleted \cup {r.body.id}
        /\ zhook'.call = IF r.body.id \in deleted THEN "none" ELSE "delete"
        /\ zhook'.code = 200

\* C25: on a validly signed ended event for a known session the local
\* session is set to ended with the event's duration and then the remote
\* session is deleted, once; if the local update fails the remote session is
\* not deleted; a redelivered ended event for the same session leaves the
\* same state and is again acknowledged with success.
C25_EndedUpdatesThenDeletesOnce ==
    [][\A r \in SessionEvents :
          (KnownEnd(r) /\ zoomWebhookHandler(r)) => (UpdateFailed \/ Ended(r))]_vars

\* the rows of payunit_payment_status of a transaction
StatusRecords(tbl, transactionID) ==
    {i \in DOMAIN tbl : tbl[i].transaction_id = transactionID}

\* C26: after each successful reconcile exactly one local status record
\* exists for the booking's transaction ID and it holds the status the
\* gateway just reported: the first reconcile inserts the record and every
\* later reconcile updates that same record.
C26_OneRecordWithLatestStatus ==
    [][\A p \in Procs :
          (preq[p].op = "webhook" /\ Answers(p, 200)) =>
              LET rows == StatusRecords(payunit_payment_status', preq[p].txn)
              IN  /\ Cardinality(rows) = 1
                  /\ \A i \in rows :
                        payunit_payment_status'[i].transaction_status
                            = preq[p].status]_vars

\* a step that makes a booking paid is the reconcile of a handler to which
\* the gateway has answered SUCCESS
PaidByGateway ==
    \A id \in DOMAIN bookings :
        (bookings[id].payment_status # "paid" /\ bookings'[id].payment_status = "paid")
        => \E p \in Procs : /\ preq[p].pc = "r_apply"
                            /\ preq[p].booking = id
                            /\ preq[p].status = "SUCCESS"

\* C27: the booking state that results from a payment webhook depends only
\* on the transaction ID in the payload and on the status the gateway
\* returns when queried: a step that is the delivery of one payload is also
\* the delivery of every payload with the same transaction ID, whatever
\* their transaction_status and transaction_amount, and a booking becomes
\* paid only when the gateway has reported SUCCESS.
C27_PayloadStatusIgnored ==
    [][/\ \A p \in Procs, a, b \in Payloads :
              a.transaction_id = b.transaction_id
              => (WebhookLookup(p, a) <=> WebhookLookup(p, b))
       /\ PaidByGateway]_vars

\* a delivery, which is one of every payload of transaction 1, those that
\* say SUCCESS included, has been answered 200 after the gateway reported
\* FAILED, and the booking is failed, not paid
C27_Witness ==
    \E p \in Procs :
        /\ preq[p].op = "webhook" /\ preq[p].pc = "idle" /\ preq[p].code = 200
        /\ preq[p].status = "FAILED"
        /\ bookings[1].payment_status = "failed"
        /\ bookings[1].zoom_meeting_id = NULL

\* C28: after initialize returns, with success or with an error at any of
\* its steps, the booking holds either both a payment-initialization
\* reference and a gateway transaction ID or neither, never the reference
\* without the transaction ID.
C28_InitReferenceWithTransaction ==
    [][\A p \in Procs :
          (preq[p].op = "init" /\ preq[p].pc \notin {"idle", "i_gateway"}
             /\ preq'[p].pc = "idle")
          => LET bk == bookings'[preq[p].booking]
             IN  bk.payunit_transactions_init_id # NULL <=> bk.transaction_id # NULL]_vars

\* C29: for each session at most one termination task is ever enqueued,
\* however many participant_joined events (several participants, rejoins,
\* redelivered webhooks) arrive for it.
C29_OneTaskPerSession ==
    \A id \in DOMAIN zoom :
        Cardinality({i \in DOMAIN tasks : tasks[i].meeting = id}) <= 1

\* the steps of the payment handlers that update a row of bookings
UpdatePcs == {"r_apply", "r_update", "i_setinit", "i_settxn"}

\* C30: every update of a booking row whose start time is earlier than the
\* current time is rejected by the booking-rules trigger and leaves the row
\* unchanged: once a booking's start has passed no step changes its row,
\* neither reconcile its payment_status or session nor the status PATCH its
\* booking_status, and a payment handler that updates it answers 500.
C30_PastRowIsFrozen ==
    [][\A id \in DOMAIN bookings :
          bookings[id].start_time < now
          => /\ bookings'[id] = bookings[id]
             /\ \A p \in Procs :
                   (preq[p].pc \in UpdatePcs /\ preq[p].booking = id
                      /\ preq'[p] # preq[p])
                   => (preq'[p].pc = "idle" /\ preq'[p].code = 500)]_vars

\* the start of a pending booking has passed, the gateway has reported
\* SUCCESS for it and, with no outside failure, the reconcile was answered
\* 500 and the booking is still unpaid and without a session
C30_Witness ==
    \E id \in DOMAIN bookings, p \in Procs :
        /\ bookings[id].start_time < now
        /\ bookings[id].transaction_id # NULL
        /\ bookings[id].payment_status = "pending"
        /\ bookings[id].zoom_meeting_id = NULL
        /\ preq[p].op = "webhook" /\ preq[p].pc = "idle"
        /\ preq[p].status = "SUCCESS" /\ preq[p].code = 500 /\ preq[p].fails = 0

====
